---- MODULE Spec2Model ----
(***************************************************************************)
(* Threadbaire server: the entry store (lib/db), its two backends and the  *)
(* HTTP routes that call it.                                               *)
(*                                                                         *)
(* The entries table is the set `entries` of rows.  The embedded backend   *)
(* (better-sqlite3) is synchronous: every store operation is one atomic    *)
(* action.  The hosted backend (@vercel/postgres) awaits each SQL          *)
(* statement: an operation is a chain of actions, one per statement, and   *)
(* the chains of the clients interleave.                                   *)
(*                                                                         *)
(* created_at / updated_at are not modelled: no operation reads them.      *)
(***************************************************************************)
EXTENDS Naturals, Integers, Sequences, FiniteSets, TLC

\* ------------------------------------------------------------------ bounds
\* Rows ever inserted (ids handed out by AUTOINCREMENT / SERIAL).
MaxEntries == 2

\* Largest entry_number handed out (moving rows between dates grows it without end).
MaxNumber == 2

\* Concurrent requests in flight.
Procs == {"c1", "c2"}

\* Rows of the large table: more than the page cap, one of them soft-deleted.
BigTable == 202

\* ------------------------------------------------------------- value sets
\* SQL NULL / JS null, and JS undefined (a field absent from an input).
NULL == "<null>"
Undefined == "<undefined>"

Projects == {"my-project"}
DocTypes == {"addendum", "dev_log"}
Dates == {"2025-06-29", "2025-06-30"}

\* String comparison of two YYYY-MM-DD dates (entry_date is TEXT).
DateRank(d) == CASE d = "2025-06-29" -> 1 [] d = "2025-06-30" -> 2 [] OTHER -> 0
DateLeq(a, b) == DateRank(a) <= DateRank(b)

OptFields == {"entry_type", "status", "summary", "details", "narrative_signal", "next_steps"}
TextFields == {"title"} \cup OptFields

\* ------------------------------------------------------------------ types
\* CreateEntryInput: the optional fields are Undefined when omitted.
NoOptionals ==
  [entry_type |-> Undefined, status |-> Undefined, summary |-> Undefined,
   details |-> Undefined, narrative_signal |-> Undefined, next_steps |-> Undefined]

SomeOptionals ==
  [entry_type |-> "Decision", status |-> "complete", summary |-> "auth fix",
   details |-> "", narrative_signal |-> Undefined, next_steps |-> "deploy"]

MkCreateInput(project, document_type, entry_date, title, opt) ==
  [project |-> project, document_type |-> document_type, entry_date |-> entry_date,
   title |-> title] @@ opt

CreateInputs ==
  { MkCreateInput("my-project", "addendum", d, "Auth fix", SomeOptionals) : d \in Dates }
  \cup { MkCreateInput("my-project", "dev_log", "2025-06-29", "Deploy", NoOptionals) }

\* UpdateEntryInput: every field is optional.
NoUpdate ==
  [entry_date |-> Undefined, title |-> Undefined] @@ NoOptionals

UpdateInputs ==
  { NoUpdate }
  \cup { [NoUpdate EXCEPT !.entry_date = d] : d \in Dates }
  \cup { [NoUpdate EXCEPT !.title = "Renamed", !.summary = ""] }

\* Every group, with and without the optional fields.
AllCreateInputs ==
  { MkCreateInput("my-project", dt, d, "Auth fix", opt) :
      dt \in DocTypes, d \in Dates, opt \in {NoOptionals, SomeOptionals} }

\* Two inputs of one group.
SameGroupInputs ==
  { MkCreateInput("my-project", "addendum", "2025-06-30", t, NoOptionals) :
      t \in {"Auth fix", "Deploy"} }

\* The inputs of the interleaved clients.
RaceCreateInputs ==
  { MkCreateInput("my-project", "addendum", d, "Auth fix", SomeOptionals) : d \in Dates }

MoveInputs == { [NoUpdate EXCEPT !.entry_date = d] : d \in Dates }

RaceUpdateInputs == MoveInputs

\* Partial updates that set different fields.
DisjointUpdates ==
  { [NoUpdate EXCEPT !.title = "Renamed"],
    [NoUpdate EXCEPT !.status = "blocked"],
    [NoUpdate EXCEPT !.entry_date = "2025-06-30"] }

\* The filters of listEntries.  limit and offset are 0 and includeDeleted is
\* FALSE when absent (JS reads 0 and false like undefined); no filter sets q.
NoFilter ==
  [project |-> Undefined, document_type |-> Undefined, after |-> Undefined,
   before |-> Undefined, q |-> Undefined, limit |-> 0, offset |-> 0,
   includeDeleted |-> FALSE]

Filters ==
  { [NoFilter EXCEPT !.project = pr, !.document_type = dt, !.after = af, !.before = be,
                     !.includeDeleted = del] :
      pr \in {Undefined, "my-project"}, dt \in {Undefined, "dev_log"},
      af \in {Undefined, "2025-06-30"}, be \in {Undefined, "2025-06-29"},
      del \in BOOLEAN }

\* Filters with a page: limit and offset present (also negative) or absent.
PagedFilters ==
  { [NoFilter EXCEPT !.document_type = dt, !.limit = l, !.offset = o, !.includeDeleted = del] :
      dt \in {Undefined, "dev_log"}, l \in {0, 1, 2, -1}, o \in {0, 1}, del \in BOOLEAN }

\* Pages asked of the large table.
BigFilters ==
  { [NoFilter EXCEPT !.limit = l, !.offset = o, !.includeDeleted = del] :
      l \in {0, -1, 1, 20, 50, 200, 201, 500}, o \in {0, 1, 200}, del \in BOOLEAN }

\* Filters with a search text (one term, two terms in another case and
\* spacing, a term with a LIKE wildcard, a term no row has, only spaces) and
\* with an empty project.
SearchTexts == {Undefined, "auth", " DEPLOY  Auth ", "a_th", "zz", " "}

SearchFilters ==
  { [NoFilter EXCEPT !.project = pr, !.document_type = dt, !.after = af, !.q = q,
                     !.includeDeleted = del] :
      pr \in {Undefined, "", "my-project"}, dt \in {Undefined, "dev_log"},
      af \in {Undefined, "2025-06-30"}, q \in SearchTexts, del \in BOOLEAN }

\* The ids a caller passes to getEntry / updateEntry / deleteEntry.
TargetIds == 1..MaxEntries

\* ------------------------------------------------------------------ state
VARIABLES
  usePostgres,   \* part_001:16   which backend this process uses
  sqliteDb,      \* part_001:22   the lazily opened handle: NULL or "open"
  tableExists,   \* the entries table has been created (CREATE TABLE IF NOT EXISTS)
  entries,       \* the rows of the entries table
  nextId,        \* the id AUTOINCREMENT / SERIAL hands out next
  pc,            \* per client: the statement its operation is at
  local,         \* per client: the locals of the operation in flight
  ret,           \* per client: what its last operation returned, and the route's answer
  held           \* history: every (id, group, entry_number) a row has carried

vars == <<usePostgres, sqliteDb, tableExists, entries, nextId, pc, local, ret, held>>

NoLocal == [op |-> "none"]
NoRet == [op |-> "none"]
NoArgs == [none |-> TRUE]

\* --------------------------------------------------------- pure operators
OrNull(x) == IF x = Undefined \/ x = "" THEN NULL ELSE x

SameGroup(r, project, document_type, entry_date) ==
  /\ r.project = project
  /\ r.document_type = document_type
  /\ r.entry_date = entry_date

SetMax(S) == IF S = {} THEN 0 ELSE CHOOSE m \in S : \A x \in S : x <= m

\* A MAX query that leaves the date out of its WHERE clause.
SelectMaxEntryNumberAnyDate(rows, project, document_type, entry_date) ==
  SetMax({ r.entry_number :
           r \in { x \in rows : x.project = project /\ x.document_type = document_type } })

\* A MAX query that skips the soft-deleted rows.
SelectMaxEntryNumberLive(rows, project, document_type, entry_date) ==
  SetMax({ r.entry_number :
           r \in { x \in rows : SameGroup(x, project, document_type, entry_date)
                                /\ x.is_deleted = 0 } })

\* A MAX query that sees no row of the group, as one that ran before the
\* inserts of the other creates would.
SelectMaxEntryNumberBefore(rows, project, document_type, entry_date) == 0

\* SELECT MAX(entry_number) ... WHERE project = ? AND document_type = ? AND entry_date = ?
\* (SQL NULL, which `|| 0` turns into 0, is 0 here.)
SelectMaxEntryNumber(rows, project, document_type, entry_date) ==
  SetMax({ r.entry_number : r \in { x \in rows : SameGroup(x, project, document_type, entry_date) } })

\* A MAX query without the `id != ?` term.
SelectMaxEntryNumberWithSelf(rows, project, document_type, entry_date, id) ==
  SetMax({ r.entry_number :
           r \in { x \in rows : SameGroup(x, project, document_type, entry_date) } })

\* ... AND id != ?
SelectMaxEntryNumberExcept(rows, project, document_type, entry_date, id) ==
  SetMax({ r.entry_number :
           r \in { x \in rows : SameGroup(x, project, document_type, entry_date) /\ x.id # id } })

\* A table without the UNIQUE constraint.
UniqueConstraintMissing(rows, row) == TRUE

\* UNIQUE(project, document_type, entry_date, entry_number): may `row` be stored
\* next to the other rows?
UniqueConstraintOk(rows, row) ==
  \A r \in rows :
    r.id # row.id =>
      ~ (SameGroup(r, row.project, row.document_type, row.entry_date)
         /\ r.entry_number = row.entry_number)

\* The row an INSERT stores.
NewRow(id, input, entryNumber) ==
  [id |-> id,
   project |-> input.project,
   document_type |-> input.document_type,
   entry_date |-> input.entry_date,
   entry_number |-> entryNumber,
   title |-> input.title,
   entry_type |-> OrNull(input.entry_type),
   status |-> OrNull(input.status),
   summary |-> OrNull(input.summary),
   details |-> OrNull(input.details),
   narrative_signal |-> OrNull(input.narrative_signal),
   next_steps |-> OrNull(input.next_steps),
   is_deleted |-> 0]

HasRow(rows, id) == \E r \in rows : r.id = id
RowOf(rows, id) == CHOOSE r \in rows : r.id = id

Holding(r) ==
  [id |-> r.id, project |-> r.project, document_type |-> r.document_type,
   entry_date |-> r.entry_date, entry_number |-> r.entry_number]

Record(rows) == held \cup { Holding(r) : r \in rows }

\* ---------------------------------------------------------------- strings
\* A JS / SQL string is a TLA+ string; Head, Tail, Len, SubSeq and \o work on it.
UpperCase == "ABCDEFGHIJKLMNOPQRSTUVWXYZ"
LowerCase == "abcdefghijklmnopqrstuvwxyz"

\* ASCII case folding of one character (COLLATE NOCASE; for the ASCII texts of
\* this model ILIKE and String.prototype.toLowerCase fold the same way).
ToLowerChar(c) ==
  IF \E i \in 1..Len(UpperCase) : SubSeq(UpperCase, i, i) = c
  THEN LET i == CHOOSE j \in 1..Len(UpperCase) : SubSeq(UpperCase, j, j) = c
       IN SubSeq(LowerCase, i, i)
  ELSE c

RECURSIVE ToLowerCase(_)
ToLowerCase(s) == IF s = "" THEN "" ELSE ToLowerChar(Head(s)) \o ToLowerCase(Tail(s))

\* The characters /\s/ matches, among those the model's texts are made of.
IsSpace(c) == c = " "

RECURSIVE TrimStart(_)
TrimStart(s) == IF s # "" /\ IsSpace(Head(s)) THEN TrimStart(Tail(s)) ELSE s

RECURSIVE TrimEnd(_)
TrimEnd(s) ==
  IF s # "" /\ IsSpace(SubSeq(s, Len(s), Len(s)))
  THEN TrimEnd(SubSeq(s, 1, Len(s) - 1))
  ELSE s

\* String.prototype.trim
Trim(s) == TrimEnd(TrimStart(s))

\* s.split(/\s+/).filter(t => t.length > 0): `word` is the piece read so far.
RECURSIVE SplitWords(_, _)
SplitWords(s, word) ==
  IF s = ""
  THEN IF word = "" THEN <<>> ELSE <<word>>
  ELSE IF IsSpace(Head(s))
       THEN (IF word = "" THEN <<>> ELSE <<word>>) \o SplitWords(Tail(s), "")
       ELSE SplitWords(Tail(s), word \o Head(s))

\* filters.q.trim().split(/\s+/).filter(t => t.length > 0)
Terms(q) == SplitWords(Trim(q), "")

\* text LIKE pattern COLLATE NOCASE (SQLite): % is any run of characters, _ any
\* one character, no escape character.
RECURSIVE SqliteLike(_, _)
SqliteLike(text, pattern) ==
  IF pattern = ""
  THEN text = ""
  ELSE IF Head(pattern) = "%"
       THEN \/ SqliteLike(text, Tail(pattern))
            \/ text # "" /\ SqliteLike(Tail(text), pattern)
       ELSE /\ text # ""
            /\ \/ Head(pattern) = "_"
               \/ ToLowerChar(Head(pattern)) = ToLowerChar(Head(text))
            /\ SqliteLike(Tail(text), Tail(pattern))

\* text ILIKE pattern (Postgres): as LIKE, and a backslash makes the next
\* character of the pattern stand for itself.
RECURSIVE PostgresILike(_, _)
PostgresILike(text, pattern) ==
  IF pattern = ""
  THEN text = ""
  ELSE IF Head(pattern) = "\\" /\ Tail(pattern) # ""
       THEN /\ text # ""
            /\ ToLowerChar(Head(Tail(pattern))) = ToLowerChar(Head(text))
            /\ PostgresILike(Tail(text), Tail(Tail(pattern)))
       ELSE IF Head(pattern) = "%"
            THEN \/ PostgresILike(text, Tail(pattern))
                 \/ text # "" /\ PostgresILike(Tail(text), pattern)
            ELSE /\ text # ""
                 /\ \/ Head(pattern) = "_"
                    \/ ToLowerChar(Head(pattern)) = ToLowerChar(Head(text))
                 /\ PostgresILike(Tail(text), Tail(pattern))

\* ------------------------------------------------------------ listEntries
\* JS truthiness of a string field.
Truthy(x) == x # Undefined /\ x # ""

\* A WHERE clause that always carries `is_deleted = 0`.
WhereNeverDeleted(r, filters) ==
  /\ r.is_deleted = 0
  /\ Truthy(filters.project) => r.project = filters.project
  /\ Truthy(filters.document_type) => r.document_type = filters.document_type
  /\ Truthy(filters.after) => DateLeq(filters.after, r.entry_date)
  /\ Truthy(filters.before) => DateLeq(r.entry_date, filters.before)

\* The conditions of the WHERE clause that do not come from q.
Where(r, filters) ==
  /\ ~filters.includeDeleted => r.is_deleted = 0
  /\ Truthy(filters.project) => r.project = filters.project
  /\ Truthy(filters.document_type) => r.document_type = filters.document_type
  /\ Truthy(filters.after) => DateLeq(filters.after, r.entry_date)
  /\ Truthy(filters.before) => DateLeq(r.entry_date, filters.before)

\* The columns q is matched against.
SearchedFields == {"title", "summary", "details", "next_steps"}

\* (title LIKE ? OR summary LIKE ? OR details LIKE ? OR next_steps LIKE ?) with
\* ? = `%${term}%`; a NULL column matches nothing.
TermCondition(postgres, r, term) ==
  \E f \in SearchedFields :
    /\ r[f] # NULL
    /\ IF postgres
       THEN PostgresILike(r[f], "%" \o term \o "%")
       ELSE SqliteLike(r[f], "%" \o term \o "%")

\* A condition that looks for the term in the title only.
QConditionsTitleOnly(postgres, r, q) ==
  Truthy(q) =>
    \A i \in 1..Len(Terms(q)) :
      IF postgres
      THEN PostgresILike(r.title, "%" \o Terms(q)[i] \o "%")
      ELSE SqliteLike(r.title, "%" \o Terms(q)[i] \o "%")

\* if (filters.q): one condition per term, joined by AND.
QConditions(postgres, r, q) ==
  Truthy(q) => \A i \in 1..Len(Terms(q)) : TermCondition(postgres, r, Terms(q)[i])

\* The rows the WHERE clause selects on a backend.
Matching(postgres, rows, filters) ==
  { r \in rows : Where(r, filters) /\ QConditions(postgres, r, filters.q) }

Min(a, b) == IF a <= b THEN a ELSE b

\* A limit that defaults to the page size of the GET route.
LimitDefaultTwenty(filters) == Min(IF filters.limit # 0 THEN filters.limit ELSE 20, 200)

\* Math.min(filters.limit || 50, 200)   and   filters.offset || 0
DefaultLimit == 50
LimitCap == 200
Limit(filters) == Min(IF filters.limit # 0 THEN filters.limit ELSE DefaultLimit, LimitCap)
Offset(filters) == filters.offset

\* SELECT COUNT(*) FROM entries WHERE ...
SelectCount(postgres, rows, filters) == Cardinality(Matching(postgres, rows, filters))

\* ORDER BY entry_date DESC, entry_number DESC: r may not come after r2.
OrderedBefore(r, r2) ==
  \/ DateRank(r.entry_date) > DateRank(r2.entry_date)
  \/ r.entry_date = r2.entry_date /\ r.entry_number >= r2.entry_number

\* The orders in which rows that tie on entry_date and entry_number may come
\* back: any.
RECURSIVE TieOrders(_)
TieOrders(tied) ==
  IF tied = {}
  THEN { <<>> }
  ELSE UNION { { <<r.id>> \o s : s \in TieOrders(tied \ {r}) } : r \in tied }

\* The rows of `matching` with the k-th smallest (entry_date, entry_number),
\* counting the numbers 1..top of each date in turn.
KeyClass(matching, top, k) ==
  { r \in matching : (DateRank(r.entry_date) - 1) * top + r.entry_number = k }

\* An ORDER BY entry_date ASC, entry_number ASC.
RECURSIVE Ascending(_, _, _, _)
Ascending(matching, top, lo, hi) ==
  IF lo > hi
  THEN { <<>> }
  ELSE IF lo = hi
       THEN TieOrders(KeyClass(matching, top, lo))
       ELSE LET mid == (lo + hi) \div 2
            IN { low \o high : low \in Ascending(matching, top, lo, mid),
                               high \in Ascending(matching, top, mid + 1, hi) }

\* The ids of the rows of `matching` whose key is the lo-th to hi-th smallest,
\* highest first (the key range is halved at each step).
RECURSIVE Descending(_, _, _, _)
Descending(matching, top, lo, hi) ==
  IF lo > hi
  THEN { <<>> }
  ELSE IF lo = hi
       THEN TieOrders(KeyClass(matching, top, lo))
       ELSE LET mid == (lo + hi) \div 2
            IN { high \o low : high \in Descending(matching, top, mid + 1, hi),
                               low \in Descending(matching, top, lo, mid) }

\* The orders in which the matching rows may come back, as sequences of ids.
Orderings(postgres, rows, filters) ==
  LET matching == Matching(postgres, rows, filters)
      top == SetMax({ r.entry_number : r \in matching })
  IN Descending(matching, top, 1, Cardinality(Dates) * top)

\* LIMIT ? OFFSET ? in SQLite: a negative LIMIT is no limit, a negative OFFSET
\* is 0.  Postgres gives the same page when neither is negative.
Page(ids, limit, offset) ==
  LET from == IF offset < 0 THEN 0 ELSE offset
  IN SubSeq(ids, from + 1, IF limit < 0 THEN Len(ids) ELSE Min(Len(ids), from + limit))

\* Postgres: "LIMIT must not be negative", "OFFSET must not be negative".
PostgresRejectsPage(limit, offset) == limit < 0 \/ offset < 0

Listed(filters, ids, total) ==
  [op |-> "listEntries", args |-> filters, threw |-> FALSE, id |-> 0, ok |-> TRUE,
   http |-> 200, entries |-> ids, total |-> total]

\* What sqliteListEntries may return from a table.
SqliteListAnswers(rows, filters) ==
  { Listed(filters, Page(ids, Limit(filters), Offset(filters)),
           SelectCount(FALSE, rows, filters)) :
      ids \in Orderings(FALSE, rows, filters) }

\* -------------------------------------------------------- route answers
\* POST /api/entries: 201 with the entry.
PostAnswer(created) == 201
\* PUT /api/entries/:id: 404 when updateEntry returned null.
PutAnswer(updated) == IF ~updated THEN 404 ELSE 200
\* DELETE /api/entries/:id: 404 when deleteEntry returned false.
DeleteAnswer(deleted) == IF ~deleted THEN 404 ELSE 200
\* GET /api/entries/:id: 404 when getEntry returned null.
GetAnswer(found) == IF ~found THEN 404 ELSE 200
\* Every route's catch block.
CatchAnswer == 500

\* What an operation hands back: `args` is what it was called with, `id` is the id the call was about (for
\* createEntry the id of the new row), `ok` tells an Entry / true from
\* null / false.  The Entry returned is the row `id` of the table at that
\* moment (SELECT * ... WHERE id = ? / RETURNING *).
Returned(op, args, id, ok, http) ==
  [op |-> op, args |-> args, threw |-> FALSE, id |-> id, ok |-> ok, http |-> http]
Threw(op, args, id) ==
  [op |-> op, args |-> args, threw |-> TRUE, id |-> id, ok |-> FALSE, http |-> CatchAnswer]

\* What the select statement of postgresListEntries may end in, `total` being
\* what the count statement gave.
PostgresSelectAnswers(rows, filters, total) ==
  IF PostgresRejectsPage(Limit(filters), Offset(filters))
  THEN { Threw("listEntries", filters, 0) }
  ELSE { Listed(filters, Page(ids, Limit(filters), Offset(filters)), total) :
           ids \in Orderings(TRUE, rows, filters) }

\* What postgresListEntries may return from a table no other client writes to.
PostgresListAnswers(rows, filters) ==
  PostgresSelectAnswers(rows, filters, SelectCount(TRUE, rows, filters))

\* ------------------------------------------------------------------- init
Init ==
  /\ usePostgres \in BOOLEAN
  /\ sqliteDb = NULL
  /\ tableExists = FALSE
  /\ entries = {}
  /\ nextId = 1
  /\ pc = [p \in Procs |-> "idle"]
  /\ local = [p \in Procs |-> NoLocal]
  /\ ret = [p \in Procs |-> NoRet]
  /\ held = {}

\* getSqliteDb(): the first access opens the handle and creates the schema,
\* a later one returns the handle it finds.
GetSqliteDb ==
  IF sqliteDb = NULL
  THEN /\ sqliteDb' = "open"
       /\ tableExists' = TRUE
  ELSE UNCHANGED <<sqliteDb, tableExists>>

\* const db = getSqliteDb(); db.prepare(...): a statement on the entries table
\* is prepared only when the table exists.
SqlitePrepare ==
  /\ GetSqliteDb
  /\ tableExists'

\* The operation returns (or throws) and the route builds its answer.
Finish(p, r) ==
  /\ pc' = [pc EXCEPT ![p] = "done"]
  /\ local' = [local EXCEPT ![p] = NoLocal]
  /\ ret' = [ret EXCEPT ![p] = r]

Store(rows) == entries' = rows

\* ------------------------------------------------- embedded backend (SQLite)
SqliteIdle(p) == ~usePostgres /\ pc[p] = "idle"

\* UPDATE entries SET <the fields present in input> WHERE id = ?
SqliteUpdatedRow(existing, input, rows) ==
  LET dateChanges == input.entry_date # Undefined /\ input.entry_date # existing.entry_date
      newEntryNumber ==
        SelectMaxEntryNumberExcept(rows, existing.project, existing.document_type,
                                   input.entry_date, existing.id) + 1
      Set(f) == IF input[f] # Undefined THEN input[f] ELSE existing[f]
  IN [existing EXCEPT
        !.entry_date = IF dateChanges THEN input.entry_date ELSE @,
        !.entry_number = IF dateChanges THEN newEntryNumber ELSE @,
        !.title = Set("title"),
        !.entry_type = Set("entry_type"),
        !.status = Set("status"),
        !.summary = Set("summary"),
        !.details = Set("details"),
        !.narrative_signal = Set("narrative_signal"),
        !.next_steps = Set("next_steps")]

SqliteCreateEntry(p, input) ==
  /\ SqliteIdle(p)
  /\ nextId <= MaxEntries
  /\ SelectMaxEntryNumber(entries, input.project, input.document_type, input.entry_date) < MaxNumber
  /\ SqlitePrepare
  /\ LET entryNumber ==
           SelectMaxEntryNumber(entries, input.project, input.document_type, input.entry_date) + 1
         row == NewRow(nextId, input, entryNumber)
     IN IF UniqueConstraintOk(entries, row)
        THEN /\ Store(entries \cup {row})
             /\ nextId' = nextId + 1
             /\ Finish(p, Returned("createEntry", input, row.id, TRUE, PostAnswer(TRUE)))
        ELSE /\ UNCHANGED <<entries, nextId>>
             /\ Finish(p, Threw("createEntry", input, 0))
  /\ UNCHANGED usePostgres

SqliteUpdateEntry(p, id, input) ==
  /\ SqliteIdle(p)
  /\ HasRow(entries, id) => SqliteUpdatedRow(RowOf(entries, id), input, entries).entry_number <= MaxNumber
  /\ SqlitePrepare
  /\ IF ~HasRow(entries, id)
     THEN /\ UNCHANGED entries
          /\ Finish(p, Returned("updateEntry", input, id, FALSE, PutAnswer(FALSE)))
     ELSE LET existing == RowOf(entries, id)
              row == SqliteUpdatedRow(existing, input, entries)
          IN IF UniqueConstraintOk(entries, row)
             THEN /\ Store((entries \ {existing}) \cup {row})
                  /\ Finish(p, Returned("updateEntry", input, id, TRUE, PutAnswer(TRUE)))
             ELSE /\ UNCHANGED entries
                  /\ Finish(p, Threw("updateEntry", input, id))
  /\ UNCHANGED <<usePostgres, nextId>>

\* A delete that removes the row in both modes.
DeletedRowsAlwaysHard(rows, id, hard) == { r \in rows : r.id # id }

\* A soft delete that flips the flag: UPDATE entries SET is_deleted = 1 - is_deleted.
DeletedRowsFlipping(rows, id, hard) ==
  IF hard
  THEN { r \in rows : r.id # id }
  ELSE { IF r.id = id THEN [r EXCEPT !.is_deleted = 1 - @] ELSE r : r \in rows }

\* DELETE FROM entries WHERE id = ?   /   UPDATE entries SET is_deleted = 1 WHERE id = ?
DeletedRows(rows, id, hard) ==
  IF hard
  THEN { r \in rows : r.id # id }
  ELSE { IF r.id = id THEN [r EXCEPT !.is_deleted = 1] ELSE r : r \in rows }

\* A delete that reports success whatever the statement touched.
RowsAffectedAlways(rows, id) == TRUE

\* .changes > 0   /   rowCount > 0
RowsAffected(rows, id) == HasRow(rows, id)

\* The DELETE route calls deleteEntry(id): a hard delete is a direct store call.
DeleteReturned(id, deleted, hard) ==
  Returned("deleteEntry", [hard |-> hard], id, deleted, IF hard THEN 0 ELSE DeleteAnswer(deleted))

SqliteDeleteEntry(p, id, hard) ==
  /\ SqliteIdle(p)
  /\ SqlitePrepare
  /\ Store(DeletedRows(entries, id, hard))
  /\ Finish(p, DeleteReturned(id, RowsAffected(entries, id), hard))
  /\ UNCHANGED <<usePostgres, nextId>>


SqliteGetEntry(p, id) ==
  /\ SqliteIdle(p)
  /\ SqlitePrepare
  /\ Finish(p, Returned("getEntry", NoArgs, id, HasRow(entries, id), GetAnswer(HasRow(entries, id))))
  /\ UNCHANGED <<usePostgres, entries, nextId>>

SqliteListEntries(p, filters) ==
  /\ SqliteIdle(p)
  /\ SqlitePrepare
  /\ \E answer \in SqliteListAnswers(entries, filters) : Finish(p, answer)
  /\ UNCHANGED <<usePostgres, entries, nextId>>

SqliteInitSchema(p) ==
  /\ SqliteIdle(p)
  /\ GetSqliteDb
  /\ Finish(p, Returned("initSchema", NoArgs, 0, TRUE, 200))
  /\ UNCHANGED <<usePostgres, entries, nextId>>

\* getSqliteDb() when the pragma or initSqliteSchema throws on the first
\* access: `sqliteDb = new Database(dbPath)` has been executed, the schema has
\* not been created, and the operation throws.
SqliteOpenFails(p, op) ==
  /\ SqliteIdle(p)
  /\ sqliteDb = NULL
  /\ sqliteDb' = "open"
  /\ Finish(p, Threw(op, NoArgs, 0))
  /\ UNCHANGED <<usePostgres, tableExists, entries, nextId>>

\* A statement through a handle whose database has no entries table fails.
SqliteNoTable(p, op) ==
  /\ SqliteIdle(p)
  /\ sqliteDb # NULL
  /\ ~tableExists
  /\ Finish(p, Threw(op, NoArgs, 0))
  /\ UNCHANGED <<usePostgres, sqliteDb, tableExists, entries, nextId>>

\* --------------------------------------------------- hosted backend (Postgres)
PostgresIdle(p) == usePostgres /\ pc[p] = "idle"

\* A statement against a database whose entries table was never created fails.
PostgresNoTable(p, op) ==
  /\ PostgresIdle(p)
  /\ ~tableExists
  /\ Finish(p, Threw(op, NoArgs, 0))
  /\ UNCHANGED <<usePostgres, sqliteDb, tableExists, entries, nextId>>

CreatesInFlight == Cardinality({ q \in Procs : pc[q] = "create_insert" })

\* SELECT MAX(entry_number) ...
PostgresCreateEntryMax(p, input) ==
  /\ PostgresIdle(p)
  /\ tableExists
  /\ nextId + CreatesInFlight <= MaxEntries
  /\ SelectMaxEntryNumber(entries, input.project, input.document_type, input.entry_date) < MaxNumber
  /\ pc' = [pc EXCEPT ![p] = "create_insert"]
  /\ local' = [local EXCEPT ![p] =
       [op |-> "createEntry", input |-> input,
        entryNumber |->
          SelectMaxEntryNumber(entries, input.project, input.document_type, input.entry_date) + 1]]
  /\ UNCHANGED <<usePostgres, sqliteDb, tableExists, entries, nextId, ret>>

\* INSERT INTO entries ... RETURNING *
PostgresCreateEntryInsert(p) ==
  /\ usePostgres
  /\ pc[p] = "create_insert"
  /\ LET row == NewRow(nextId, local[p].input, local[p].entryNumber)
     IN IF UniqueConstraintOk(entries, row)
        THEN /\ Store(entries \cup {row})
             /\ Finish(p, Returned("createEntry", local[p].input, row.id, TRUE, PostAnswer(TRUE)))
        ELSE /\ UNCHANGED entries
             /\ Finish(p, Threw("createEntry", local[p].input, 0))
  /\ nextId' = nextId + 1
  /\ UNCHANGED <<usePostgres, sqliteDb, tableExists>>

\* The columns of `existing` that postgresUpdateEntry goes on to read: project and
\* document_type for the MAX query, the text columns for the UPDATE.
Existing(row) == [f \in {"project", "document_type"} \cup TextFields |-> row[f]]

\* const existing = await postgresGetEntry(id); if (!existing) return null;
\* let newEntryNumber = existing.entry_number; let newEntryDate = existing.entry_date;
\* (when the date changes both are overwritten by the MAX step before they are read)
PostgresUpdateEntryGet(p, id, input) ==
  /\ PostgresIdle(p)
  /\ tableExists
  /\ IF ~HasRow(entries, id)
     THEN Finish(p, Returned("updateEntry", input, id, FALSE, PutAnswer(FALSE)))
     ELSE LET existing == RowOf(entries, id)
              dateChanges ==
                input.entry_date # Undefined /\ input.entry_date # existing.entry_date
          IN /\ pc' = [pc EXCEPT ![p] = IF dateChanges THEN "update_max" ELSE "update_write"]
             /\ local' = [local EXCEPT ![p] =
                  [op |-> "updateEntry", id |-> id, input |-> input,
                   existing |-> Existing(existing),
                   newEntryNumber |-> IF dateChanges THEN 0 ELSE existing.entry_number,
                   newEntryDate |-> IF dateChanges THEN NULL ELSE existing.entry_date]]
             /\ UNCHANGED ret
  /\ UNCHANGED <<usePostgres, sqliteDb, tableExists, entries, nextId>>

\* SELECT MAX(entry_number) ... AND id != ${id}
PostgresUpdateEntryMax(p) ==
  /\ usePostgres
  /\ pc[p] = "update_max"
  /\ SelectMaxEntryNumberExcept(entries, local[p].existing.project,
                                local[p].existing.document_type,
                                local[p].input.entry_date, local[p].id) < MaxNumber
  /\ pc' = [pc EXCEPT ![p] = "update_write"]
  /\ local' = [local EXCEPT ![p] =
       [@ EXCEPT
          !.newEntryNumber =
             SelectMaxEntryNumberExcept(entries, local[p].existing.project,
                                        local[p].existing.document_type,
                                        local[p].input.entry_date, local[p].id) + 1,
          !.newEntryDate = local[p].input.entry_date]]
  /\ UNCHANGED <<usePostgres, sqliteDb, tableExists, entries, nextId, ret>>

\* An UPDATE that writes NULL for the fields the input leaves out.
PostgresUpdatedRowNulling(current, l) ==
  LET Set(f) == IF l.input[f] # Undefined THEN l.input[f] ELSE NULL
  IN [current EXCEPT
        !.entry_date = l.newEntryDate,
        !.entry_number = l.newEntryNumber,
        !.title = Set("title"),
        !.entry_type = Set("entry_type"),
        !.status = Set("status"),
        !.summary = Set("summary"),
        !.details = Set("details"),
        !.narrative_signal = Set("narrative_signal"),
        !.next_steps = Set("next_steps")]

\* UPDATE entries SET entry_date = ..., entry_number = ..., title = ..., ... WHERE id = ${id}
PostgresUpdatedRow(current, l) ==
  LET Set(f) == IF l.input[f] # Undefined THEN l.input[f] ELSE l.existing[f]
  IN [current EXCEPT
        !.entry_date = l.newEntryDate,
        !.entry_number = l.newEntryNumber,
        !.title = Set("title"),
        !.entry_type = Set("entry_type"),
        !.status = Set("status"),
        !.summary = Set("summary"),
        !.details = Set("details"),
        !.narrative_signal = Set("narrative_signal"),
        !.next_steps = Set("next_steps")]

PostgresUpdateEntryWrite(p) ==
  /\ usePostgres
  /\ pc[p] = "update_write"
  /\ IF ~HasRow(entries, local[p].id)
     THEN /\ UNCHANGED entries
          /\ Finish(p, Returned("updateEntry", local[p].input, local[p].id, FALSE, PutAnswer(FALSE)))
     ELSE LET current == RowOf(entries, local[p].id)
              row == PostgresUpdatedRow(current, local[p])
          IN IF UniqueConstraintOk(entries, row)
             THEN /\ Store((entries \ {current}) \cup {row})
                  /\ Finish(p, Returned("updateEntry", local[p].input, local[p].id, TRUE, PutAnswer(TRUE)))
             ELSE /\ UNCHANGED entries
                  /\ Finish(p, Threw("updateEntry", local[p].input, local[p].id))
  /\ UNCHANGED <<usePostgres, sqliteDb, tableExists, nextId>>

PostgresDeleteEntry(p, id, hard) ==
  /\ PostgresIdle(p)
  /\ tableExists
  /\ Store(DeletedRows(entries, id, hard))
  /\ Finish(p, DeleteReturned(id, RowsAffected(entries, id), hard))
  /\ UNCHANGED <<usePostgres, sqliteDb, tableExists, nextId>>

PostgresGetEntry(p, id) ==
  /\ PostgresIdle(p)
  /\ tableExists
  /\ Finish(p, Returned("getEntry", NoArgs, id, HasRow(entries, id), GetAnswer(HasRow(entries, id))))
  /\ UNCHANGED <<usePostgres, sqliteDb, tableExists, entries, nextId>>

\* const countResult = await sql.query(countQuery, params)
PostgresListEntriesCount(p, filters) ==
  /\ PostgresIdle(p)
  /\ tableExists
  /\ pc' = [pc EXCEPT ![p] = "list_select"]
  /\ local' = [local EXCEPT ![p] =
       [op |-> "listEntries", filters |-> filters, total |-> SelectCount(TRUE, entries, filters)]]
  /\ UNCHANGED <<usePostgres, sqliteDb, tableExists, entries, nextId, ret>>

\* const entriesResult = await sql.query(selectQuery, [...params, limit, offset])
PostgresListEntriesSelect(p) ==
  /\ usePostgres
  /\ pc[p] = "list_select"
  /\ \E answer \in PostgresSelectAnswers(entries, local[p].filters, local[p].total) :
       Finish(p, answer)
  /\ UNCHANGED <<usePostgres, sqliteDb, tableExists, entries, nextId>>

\* An initSchema that creates the table anew, without IF NOT EXISTS semantics.
PostgresInitSchemaAnew(p) ==
  /\ PostgresIdle(p)
  /\ tableExists' = TRUE
  /\ entries' = {}
  /\ Finish(p, Returned("initSchema", NoArgs, 0, TRUE, 200))
  /\ UNCHANGED <<usePostgres, sqliteDb, nextId>>

\* CREATE TABLE IF NOT EXISTS entries ...; the four CREATE INDEX IF NOT EXISTS
\* statements that follow change nothing an operation can observe.
PostgresInitSchema(p) ==
  /\ PostgresIdle(p)
  /\ tableExists' = TRUE
  /\ Finish(p, Returned("initSchema", NoArgs, 0, TRUE, 200))
  /\ UNCHANGED <<usePostgres, sqliteDb, entries, nextId>>

Ops == {"createEntry", "updateEntry", "deleteEntry", "getEntry", "listEntries"}

\* The answer is sent: the request is over and the client may send the next one.
Respond(p) ==
  /\ pc[p] = "done"
  /\ pc' = [pc EXCEPT ![p] = "idle"]
  /\ ret' = [ret EXCEPT ![p] = NoRet]
  /\ UNCHANGED <<usePostgres, sqliteDb, tableExists, entries, nextId, local>>

\* ------------------------------------------------------------ unified API
createEntry(p, inputs) ==
  \/ \E input \in inputs : SqliteCreateEntry(p, input)
  \/ \E input \in inputs : PostgresCreateEntryMax(p, input)
  \/ PostgresCreateEntryInsert(p)

updateEntry(p, inputs) ==
  \/ \E id \in TargetIds, input \in inputs : SqliteUpdateEntry(p, id, input)
  \/ \E id \in TargetIds, input \in inputs : PostgresUpdateEntryGet(p, id, input)
  \/ PostgresUpdateEntryMax(p)
  \/ PostgresUpdateEntryWrite(p)

deleteEntry(p) ==
  \/ \E id \in TargetIds, hard \in BOOLEAN : SqliteDeleteEntry(p, id, hard)
  \/ \E id \in TargetIds, hard \in BOOLEAN : PostgresDeleteEntry(p, id, hard)

getEntry(p) ==
  \/ \E id \in TargetIds : SqliteGetEntry(p, id)
  \/ \E id \in TargetIds : PostgresGetEntry(p, id)

listEntries(p, filters) ==
  \/ \E f \in filters : SqliteListEntries(p, f)
  \/ \E f \in filters : PostgresListEntriesCount(p, f)
  \/ PostgresListEntriesSelect(p)

initSchema(p) ==
  \/ SqliteInitSchema(p)
  \/ PostgresInitSchema(p)

NoTable(p) == \E op \in Ops : PostgresNoTable(p, op)

\* The history of holdings follows the table.
Track == held' = Record(entries')

\* Any interleaving of the clients' requests.
Next ==
  \E p \in Procs :
    \/ createEntry(p, RaceCreateInputs) /\ UNCHANGED held
    \/ updateEntry(p, RaceUpdateInputs) /\ UNCHANGED held
    \/ deleteEntry(p) /\ UNCHANGED held
    \/ getEntry(p) /\ UNCHANGED held
    \/ initSchema(p) /\ UNCHANGED held
    \/ NoTable(p) /\ UNCHANGED held
    \/ Respond(p) /\ UNCHANGED held

Spec == Init /\ [][Next]_vars

\* Calls executed one after another, by one client.
NextSeq ==
  \E p \in {"c1"} :
    \/ createEntry(p, CreateInputs) /\ UNCHANGED held
    \/ updateEntry(p, UpdateInputs) /\ UNCHANGED held
    \/ deleteEntry(p) /\ UNCHANGED held
    \/ getEntry(p) /\ UNCHANGED held
    \/ initSchema(p) /\ UNCHANGED held
    \/ NoTable(p) /\ UNCHANGED held
    \/ Respond(p) /\ UNCHANGED held

SpecSeq == Init /\ [][NextSeq]_vars

\* Calls executed one after another and read back through the filters.
NextList ==
  \E p \in {"c1"} :
    \/ createEntry(p, CreateInputs) /\ UNCHANGED held
    \/ updateEntry(p, MoveInputs) /\ UNCHANGED held
    \/ deleteEntry(p) /\ UNCHANGED held
    \/ getEntry(p) /\ UNCHANGED held
    \/ listEntries(p, Filters) /\ UNCHANGED held
    \/ initSchema(p) /\ UNCHANGED held
    \/ NoTable(p) /\ UNCHANGED held
    \/ Respond(p) /\ UNCHANGED held

SpecList == Init /\ [][NextList]_vars

\* Sequential creates, date changes and deletes, with the history of holdings.
NextHist ==
  \E p \in {"c1"} :
    \/ createEntry(p, RaceCreateInputs) /\ Track
    \/ updateEntry(p, MoveInputs) /\ Track
    \/ deleteEntry(p) /\ Track
    \/ initSchema(p) /\ Track
    \/ Respond(p) /\ Track

SpecHist == Init /\ [][NextHist]_vars

\* Only createEntry calls, one after another, with the history of holdings.
NextSeqCreates ==
  \E p \in {"c1"} :
    \/ createEntry(p, AllCreateInputs) /\ Track
    \/ initSchema(p) /\ Track
    \/ Respond(p) /\ Track

SpecSeqCreates == Init /\ [][NextSeqCreates]_vars

\* Two createEntry calls in one group at the same time: c1 first fills the
\* group alone, then each client sends one create and keeps its answer.
NextRaceCreates ==
  \/ /\ pc["c2"] = "idle"
     /\ \/ initSchema("c1") /\ UNCHANGED held
        \/ Respond("c1") /\ UNCHANGED held
  \/ \E p \in Procs : createEntry(p, SameGroupInputs) /\ UNCHANGED held

SpecRaceCreates == Init /\ [][NextRaceCreates]_vars

\* Calls executed one after another and read back page by page.
NextPaged ==
  \E p \in {"c1"} :
    \/ createEntry(p, CreateInputs) /\ UNCHANGED held
    \/ deleteEntry(p) /\ UNCHANGED held
    \/ listEntries(p, PagedFilters) /\ UNCHANGED held
    \/ initSchema(p) /\ UNCHANGED held
    \/ Respond(p) /\ UNCHANGED held

SpecPaged == Init /\ [][NextPaged]_vars

\* The store after initSchema, BigTable creates on one date and the soft
\* delete of the first entry.
InitBig ==
  /\ usePostgres \in BOOLEAN
  /\ sqliteDb = IF usePostgres THEN NULL ELSE "open"
  /\ tableExists = TRUE
  /\ entries =
       { [NewRow(i, MkCreateInput("my-project", "addendum", "2025-06-30", "Auth fix", NoOptionals), i)
            EXCEPT !.is_deleted = IF i = 1 THEN 1 ELSE 0] : i \in 1..BigTable }
  /\ nextId = BigTable + 1
  /\ pc = [p \in Procs |-> "idle"]
  /\ local = [p \in Procs |-> NoLocal]
  /\ ret = [p \in Procs |-> NoRet]
  /\ held = {}

\* Pages read from the large table.
NextBig ==
  \E p \in {"c1"} :
    \/ listEntries(p, BigFilters) /\ UNCHANGED held
    \/ Respond(p) /\ UNCHANGED held

SpecBig == InitBig /\ [][NextBig]_vars

\* Calls executed one after another and read back through search filters.
NextSearch ==
  \E p \in {"c1"} :
    \/ createEntry(p, CreateInputs) /\ UNCHANGED held
    \/ deleteEntry(p) /\ UNCHANGED held
    \/ listEntries(p, SearchFilters) /\ UNCHANGED held
    \/ initSchema(p) /\ UNCHANGED held
    \/ Respond(p) /\ UNCHANGED held

SpecSearch == Init /\ [][NextSearch]_vars

\* ------------------------------------------------------------------- HTTP
\* The code units the character class of normalizeStatus removes (the regular
\* expression has no u flag, so the class holds UTF-16 code units), written
\* with ASCII stand-ins: "!" is U+2705, "^" is U+D83D (the high surrogate the
\* other four emoji share), "{" is U+DFE1, "}" is U+DD1C, "[" is U+DD34 and
\* "]" is U+DFE2, so that "^{" is the yellow circle U+1F7E1.  "~" stands for
\* U+DD25, which the class does not hold: "^~" is the fire emoji U+1F525.
StatusEmoji == {"!", "^", "{", "}", "[", "]"}

\* .replace(/[...]/g, '')
RECURSIVE StripEmoji(_)
StripEmoji(s) ==
  IF s = "" THEN ""
  ELSE IF Head(s) \in StatusEmoji
       THEN StripEmoji(Tail(s))
       ELSE Head(s) \o StripEmoji(Tail(s))

\* .replace(/\s+/g, '_'): every run of whitespace becomes one underscore.
RECURSIVE Underscored(_, _)
Underscored(s, inRun) ==
  IF s = "" THEN ""
  ELSE IF IsSpace(Head(s))
       THEN (IF inRun THEN "" ELSE "_") \o Underscored(Tail(s), TRUE)
       ELSE Head(s) \o Underscored(Tail(s), FALSE)

StatusMappings ==
  [done |-> "complete", partial |-> "in_progress", urgent |-> "blocked",
   inprogress |-> "in_progress"]

\* The keys of STATUS_DISPLAY.
CanonicalStatuses == {"complete", "in_progress", "logged", "queued", "blocked", "observed"}

\* What an object literal inherits from Object.prototype under a name a
\* lower-cased string can be: the values are not strings.
ObjectPrototype ==
  ("constructor" :> "<function Object>") @@ ("__proto__" :> "<Object.prototype>")

\* mappings[cleaned] || cleaned
normalizeStatus(input) ==
  LET cleaned == Underscored(Trim(StripEmoji(ToLowerCase(input))), FALSE)
  IN IF cleaned \in DOMAIN StatusMappings THEN StatusMappings[cleaned]
     ELSE IF cleaned \in DOMAIN ObjectPrototype THEN ObjectPrototype[cleaned]
     ELSE cleaned

\* The strings normalizeStatus is applied to.
StatusInputs ==
  { prefix \o word \o suffix :
      prefix \in {"", "! ", "^{ ", "^~"},
      word \in {"Done", "URGENT", "already_clean", "In  Progress", "partial",
                "InProgress", "Logged", "wip", "constructor"},
      suffix \in {"", " ", " !"} }

\* String.prototype.split(sep) for a separator of one character: `piece` is
\* the piece read so far.
RECURSIVE Split(_, _, _)
Split(s, sep, piece) ==
  IF s = "" THEN <<piece>>
  ELSE IF Head(s) = sep
       THEN <<piece>> \o Split(Tail(s), sep, "")
       ELSE Split(Tail(s), sep, piece \o Head(s))

\* !x for a string, null or undefined
Falsy(x) == x \in {NULL, Undefined, ""}

\* The token verifyAuth reads from the Authorization header.
HeaderToken(authHeader) ==
  IF Falsy(authHeader)
  THEN NULL
  ELSE LET parts == Split(authHeader, " ", "")
       IN IF Len(parts) = 2 /\ parts[1] = "Bearer" THEN parts[2] ELSE NULL

\* The token verifyAuth compares with API_KEY: the query parameter is read
\* only when the header gave none.
RequestToken(authHeader, tokenParam) ==
  IF Falsy(HeaderToken(authHeader)) THEN tokenParam ELSE HeaderToken(authHeader)

NotConfigured == 500
Unauthorized == 401

\* A verifyAuth that lets every request pass while API_KEY is not configured.
verifyAuthOpenWhenUnset(apiKey, authHeader, tokenParam) ==
  IF Falsy(apiKey) THEN 0
  ELSE IF RequestToken(authHeader, tokenParam) = apiKey THEN 0
  ELSE Unauthorized

\* verifyAuth(request), apiKey being process.env.API_KEY at the time of the
\* request: the status of the error response, or 0 when authenticated.
verifyAuth(apiKey, authHeader, tokenParam) ==
  IF Falsy(apiKey)
  THEN NotConfigured
  ELSE LET token == RequestToken(authHeader, tokenParam)
       IN IF Falsy(token) THEN Unauthorized
          ELSE IF token # apiKey THEN Unauthorized
          ELSE 0

ApiKeys == {Undefined, "", "k3y"}
AuthHeaders == {NULL, "Bearer k3y", "Bearer other", "Basic k3y"}
TokenParams == {NULL, "k3y", "other"}

\* What a request carries for verifyAuth.
Credentials ==
  [apiKey : ApiKeys, authorization : AuthHeaders, token : TokenParams]

Digits == "0123456789"
IsDigit(c) == \E i \in 1..Len(Digits) : SubSeq(Digits, i, i) = c

\* /^\d{4}-\d{2}-\d{2}$/.test(date)
DateFormatOk(date) ==
  /\ Len(date) = 10
  /\ \A i \in {1, 2, 3, 4, 6, 7, 9, 10} : IsDigit(SubSeq(date, i, i))
  /\ \A i \in {5, 8} : SubSeq(date, i, i) = "-"

NoBody ==
  [project |-> Undefined, document_type |-> Undefined, date |-> Undefined,
   title |-> Undefined, type |-> Undefined, status |-> Undefined,
   summary |-> Undefined, details |-> Undefined, narrative_signal |-> Undefined,
   next_steps |-> Undefined]

PostedStatuses == {Undefined, "! Done ", "wip"}

PostBodies ==
  { [NoBody EXCEPT !.project = "my-project", !.document_type = "addendum",
                   !.date = "2025-06-29", !.title = "Auth fix", !.status = s] :
      s \in PostedStatuses }
  \cup { [NoBody EXCEPT !.project = "my-project", !.document_type = "dev_log",
                        !.date = "2025-06-29"],
         [NoBody EXCEPT !.project = "my-project", !.document_type = "note",
                        !.date = "2025-06-29", !.title = "Auth fix"],
         [NoBody EXCEPT !.project = "my-project", !.document_type = "dev_log",
                        !.date = "June 29", !.title = "Auth fix"] }

PutBodies ==
  { [NoBody EXCEPT !.status = "^{"], [NoBody EXCEPT !.title = " "],
    [NoBody EXCEPT !.date = "2025-06-30"], [NoBody EXCEPT !.date = "June 30"] }

BodyOr(x) == IF Falsy(x) THEN Undefined ELSE x

\* The CreateEntryInput POST /api/entries builds from a body.
PostInput(body) ==
  [project |-> body.project,
   document_type |-> body.document_type,
   entry_date |-> body.date,
   title |-> body.title,
   entry_type |-> BodyOr(body.type),
   status |-> IF Falsy(body.status) THEN Undefined ELSE normalizeStatus(body.status),
   summary |-> BodyOr(body.summary),
   details |-> BodyOr(body.details),
   narrative_signal |-> BodyOr(body.narrative_signal),
   next_steps |-> BodyOr(body.next_steps)]

\* The UpdateEntryInput PUT /api/entries/:id builds from a body.
PutInput(body) ==
  [entry_date |-> body.date,
   title |-> body.title,
   entry_type |-> body.type,
   status |-> IF Falsy(body.status) THEN Undefined ELSE normalizeStatus(body.status),
   summary |-> body.summary,
   details |-> body.details,
   narrative_signal |-> body.narrative_signal,
   next_steps |-> body.next_steps]

BadRequest == 400

\* The status of the validation error of POST /api/entries, or 0.
PostInvalid(body) ==
  IF Falsy(body.project) \/ Falsy(body.document_type) \/ Falsy(body.date) \/ Falsy(body.title)
  THEN BadRequest
  ELSE IF body.document_type \notin {"addendum", "dev_log"} THEN BadRequest
  ELSE IF ~DateFormatOk(body.date) THEN BadRequest
  ELSE 0

\* The status of the validation error of PUT /api/entries/:id, or 0.
PutInvalid(body) ==
  IF body.title # Undefined /\ Trim(body.title) = "" THEN BadRequest
  ELSE IF body.date # Undefined /\ ~DateFormatOk(body.date) THEN BadRequest
  ELSE 0

\* The filters GET /api/entries builds from a URL without search parameters.
GetFilters == [NoFilter EXCEPT !.limit = 20, !.offset = (1 - 1) * 20]

\* The filters GET /api/entries builds from ?limit=<limit>&page=<page>:
\* offset = (page - 1) * limit.
PageFilters(limit, page) == [NoFilter EXCEPT !.limit = limit, !.offset = (page - 1) * limit]

\* const totalPages = Math.ceil(result.total / limit)
TotalPages(total, limit) == (total + limit - 1) \div limit

\* The limit parameters of the paged requests.
PageLimits == {67, 100, 200, 201, 500}

\* if (!auth.authenticated) return auth.response
Rejected(credentials, status) ==
  Returned("verifyAuth", credentials, 0, FALSE, status)

\* const auth = verifyAuth(request), for each request the clients may send
\* (a table, computed once: `f @@ <<>>` is f with its values worked out).
auth ==
  [credentials \in Credentials |->
     verifyAuth(credentials.apiKey, credentials.authorization, credentials.token)] @@ <<>>

Reject(p, credentials) ==
  /\ pc[p] = "idle"
  /\ auth[credentials] # 0
  /\ Finish(p, Rejected(credentials, auth[credentials]))
  /\ UNCHANGED <<usePostgres, sqliteDb, tableExists, entries, nextId>>

Authenticated(p, credentials) ==
  /\ pc[p] = "idle"
  /\ auth[credentials] = 0

\* return NextResponse.json({ error }, { status: 400 })
Invalid(p, route, body, status) ==
  /\ pc[p] = "idle"
  /\ Finish(p, Returned(route, body, 0, FALSE, status))
  /\ UNCHANGED <<usePostgres, sqliteDb, tableExists, entries, nextId>>

\* The digits a string starts with, read as a decimal number: `seen` tells
\* whether a digit was read, `value` is the number read so far.
RECURSIVE ParseDigits(_, _, _)
ParseDigits(s, seen, value) ==
  IF s # "" /\ IsDigit(Head(s))
  THEN ParseDigits(Tail(s), TRUE,
         10 * value + (CHOOSE d \in 0..9 : SubSeq(Digits, d + 1, d + 1) = Head(s)))
  ELSE [nan |-> ~seen, value |-> value]

\* parseInt(id, 10): leading whitespace is skipped, the longest prefix of
\* digits is read and what follows it is ignored; NaN when no digit is read.
parseInt(s) == ParseDigits(TrimStart(s), FALSE, 0)

\* The {id} segment of the path of a request to /api/entries/{id}.
PathIds == { ToString(id) : id \in TargetIds } \cup {"abc", "1abc"}

\* GET /api/entries after verifyAuth
List(p) ==
  \/ SqliteListEntries(p, GetFilters)
  \/ PostgresListEntriesCount(p, GetFilters)
  \/ PostgresNoTable(p, "listEntries")

\* POST /api/entries after verifyAuth
Post(p, body) ==
  IF PostInvalid(body) # 0
  THEN Invalid(p, "POST /api/entries", body, PostInvalid(body))
  ELSE \/ SqliteCreateEntry(p, PostInput(body))
       \/ PostgresCreateEntryMax(p, PostInput(body))
       \/ PostgresNoTable(p, "createEntry")

\* GET /api/entries/:id after verifyAuth
Get(p, id) ==
  IF parseInt(id).nan
  THEN Invalid(p, "GET /api/entries/:id", NoArgs, BadRequest)
  ELSE \/ SqliteGetEntry(p, parseInt(id).value)
       \/ PostgresGetEntry(p, parseInt(id).value)
       \/ PostgresNoTable(p, "getEntry")

\* PUT /api/entries/:id after verifyAuth
Put(p, id, body) ==
  IF parseInt(id).nan
  THEN Invalid(p, "PUT /api/entries/:id", body, BadRequest)
  ELSE IF PutInvalid(body) # 0
       THEN Invalid(p, "PUT /api/entries/:id", body, PutInvalid(body))
       ELSE \/ SqliteUpdateEntry(p, parseInt(id).value, PutInput(body))
            \/ PostgresUpdateEntryGet(p, parseInt(id).value, PutInput(body))
            \/ PostgresNoTable(p, "updateEntry")

\* A route that asks for the row to be removed.
HardAlways == TRUE

\* deleteEntry(id: number, hard: boolean = false), as the route calls it.
HardDefault == FALSE

\* DELETE /api/entries/:id after verifyAuth: deleteEntry(entryId)
Delete(p, id) ==
  IF parseInt(id).nan
  THEN Invalid(p, "DELETE /api/entries/:id", NoArgs, BadRequest)
  ELSE \/ SqliteDeleteEntry(p, parseInt(id).value, HardDefault)
       \/ PostgresDeleteEntry(p, parseInt(id).value, HardDefault)
       \/ PostgresNoTable(p, "deleteEntry")

\* GET /api/entries
GetEntries(p, credentials) ==
  \/ Reject(p, credentials)
  \/ Authenticated(p, credentials) /\ List(p)

\* POST /api/entries
PostEntries(p, credentials) ==
  \/ Reject(p, credentials)
  \/ Authenticated(p, credentials) /\ \E body \in PostBodies : Post(p, body)

\* GET /api/entries/:id
GetEntryById(p, credentials) ==
  \/ Reject(p, credentials)
  \/ Authenticated(p, credentials) /\ \E id \in PathIds : Get(p, id)

\* PUT /api/entries/:id
PutEntry(p, credentials) ==
  \/ Reject(p, credentials)
  \/ Authenticated(p, credentials) /\ \E id \in PathIds, body \in PutBodies : Put(p, id, body)

\* DELETE /api/entries/:id
DeleteEntryById(p, credentials) ==
  \/ Reject(p, credentials)
  \/ Authenticated(p, credentials) /\ \E id \in PathIds : Delete(p, id)

\* POST /api/init
PostInit(p, credentials) ==
  \/ Reject(p, credentials)
  \/ /\ Authenticated(p, credentials)
     /\ initSchema(p)

\* GET /api/rundown: no verifyAuth, no storage call.
GetRundown(p) ==
  /\ pc[p] = "idle"
  /\ Finish(p, Returned("GET /api/rundown", NoArgs, 0, TRUE, 200))
  /\ UNCHANGED <<usePostgres, sqliteDb, tableExists, entries, nextId>>

\* One request to a route that calls verifyAuth.
Handle(p, credentials) ==
  \/ GetEntries(p, credentials)
  \/ PostEntries(p, credentials)
  \/ GetEntryById(p, credentials)
  \/ PutEntry(p, credentials)
  \/ DeleteEntryById(p, credentials)
  \/ PostInit(p, credentials)

\* The later statements of a handler whose first statement has run.
Continue(p) ==
  \/ PostgresCreateEntryInsert(p)
  \/ PostgresUpdateEntryMax(p)
  \/ PostgresUpdateEntryWrite(p)
  \/ PostgresListEntriesSelect(p)

\* Requests of one client, API_KEY being whatever the deployment has set.
NextHttp ==
  \E p \in {"c1"} :
    \/ \E credentials \in Credentials : Handle(p, credentials) /\ UNCHANGED held
    \/ GetRundown(p) /\ UNCHANGED held
    \/ Continue(p) /\ UNCHANGED held
    \/ Respond(p) /\ UNCHANGED held

SpecHttp == Init /\ [][NextHttp]_vars

\* A request that carries the configured key in its Authorization header.
KeyHolder == [apiKey |-> "k3y", authorization |-> "Bearer k3y", token |-> NULL]

\* POST requests of two clients at the same time, after c1 has initialised
\* the schema.
NextPostRace ==
  \/ /\ pc["c2"] = "idle"
     /\ \/ PostInit("c1", KeyHolder) /\ UNCHANGED held
        \/ Respond("c1") /\ UNCHANGED held
  \/ \E p \in Procs : PostEntries(p, KeyHolder) /\ UNCHANGED held
  \/ \E p \in Procs : PostgresCreateEntryInsert(p) /\ UNCHANGED held

SpecPostRace == Init /\ [][NextPostRace]_vars

\* Calls executed one after another, the first access to the embedded
\* database being one that may fail.
NextOpen ==
  \E p \in {"c1"} :
    \/ createEntry(p, CreateInputs) /\ UNCHANGED held
    \/ updateEntry(p, UpdateInputs) /\ UNCHANGED held
    \/ deleteEntry(p) /\ UNCHANGED held
    \/ getEntry(p) /\ UNCHANGED held
    \/ initSchema(p) /\ UNCHANGED held
    \/ NoTable(p) /\ UNCHANGED held
    \/ (\E op \in {"initSchema", "getEntry"} : SqliteOpenFails(p, op)) /\ UNCHANGED held
    \/ (\E op \in Ops : SqliteNoTable(p, op)) /\ UNCHANGED held
    \/ Respond(p) /\ UNCHANGED held

SpecOpen == Init /\ [][NextOpen]_vars

\* normalizeStatus applied to one input.
InitStatus ==
  /\ usePostgres = FALSE
  /\ sqliteDb = NULL
  /\ tableExists = FALSE
  /\ entries = {}
  /\ nextId = 1
  /\ pc = [p \in Procs |-> "idle"]
  /\ \E input \in StatusInputs :
       local = [p \in Procs |->
                 IF p = "c1" THEN [op |-> "normalizeStatus", input |-> input] ELSE NoLocal]
  /\ ret = [p \in Procs |-> NoRet]
  /\ held = {}

Normalize(p) ==
  /\ pc[p] = "idle"
  /\ local[p].op = "normalizeStatus"
  /\ pc' = [pc EXCEPT ![p] = "done"]
  /\ ret' = [ret EXCEPT ![p] =
       [op |-> "normalizeStatus", args |-> local[p].input,
        result |-> normalizeStatus(local[p].input)]]
  /\ UNCHANGED <<usePostgres, sqliteDb, tableExists, entries, nextId, local, held>>

NextStatus == \E p \in {"c1"} : Normalize(p)

SpecStatus == InitStatus /\ [][NextStatus]_vars

\* Two updateEntry calls at the same time: c1 first fills the table alone,
\* then each client sends one update and keeps its answer.
NextRaceUpdates ==
  \/ /\ pc["c2"] = "idle"
     /\ \/ initSchema("c1") /\ UNCHANGED held
        \/ createEntry("c1", RaceCreateInputs) /\ UNCHANGED held
        \/ Respond("c1") /\ UNCHANGED held
  \/ \E p \in Procs : updateEntry(p, DisjointUpdates) /\ UNCHANGED held

SpecRaceUpdates == Init /\ [][NextRaceUpdates]_vars

\* ================================================================ claims
Group(r) == <<r.project, r.document_type, r.entry_date>>

Finishes(p) == pc[p] # "done" /\ pc'[p] = "done"

\* n is 1 plus the largest entry_number of `rows` in the group, or 1 when the
\* group has no row.
IsMaxPlusOne(rows, project, document_type, entry_date, n) ==
  /\ \A r \in rows : SameGroup(r, project, document_type, entry_date) => r.entry_number < n
  /\ \/ n = 1
     \/ \E r \in rows : SameGroup(r, project, document_type, entry_date) /\ r.entry_number = n - 1

\* C1: no two rows of the table share (project, document_type, entry_date,
\* entry_number), whatever the clients did and however their statements
\* interleaved, on either backend.
C1_UniqueGroupNumber ==
  \A r1, r2 \in entries :
    r1 # r2 => ~ (Group(r1) = Group(r2) /\ r1.entry_number = r2.entry_number)

\* A create was turned away by the constraint while the number it wanted is held.
C1_Witness ==
  \E p \in Procs :
    /\ pc[p] = "done" /\ ret[p].op = "createEntry" /\ ret[p].threw
    /\ ret[p].args \in RaceCreateInputs
    /\ \E r \in entries :
         SameGroup(r, ret[p].args.project, ret[p].args.document_type, ret[p].args.entry_date)

\* C2: createEntry calls made one after another in one group get strictly
\* increasing numbers in call order (ids grow in call order), never the same
\* number twice, and the first create of a group gets 1.
C2_SequentialCreatesIncrease ==
  /\ \A h1, h2 \in held :
       Group(h1) = Group(h2) /\ h1.id < h2.id => h1.entry_number < h2.entry_number
  /\ \A h \in held :
       (\A h2 \in held : Group(h2) = Group(h) => h.id <= h2.id) => h.entry_number = 1

C2_Witness ==
  \E h1, h2 \in held :
    Group(h1) = Group(h2) /\ h1.id < h2.id /\ h1.entry_number = 1 /\ h2.entry_number = 2

\* C3: when two creates of one group run at the same time, either both succeed
\* with consecutive numbers or exactly one succeeds and the other throws; no two
\* rows carry one number, and a create that throws stores no row.
RaceOver ==
  \A p \in Procs :
    pc[p] = "done" /\ ret[p].op = "createEntry" /\ ret[p].args \in SameGroupInputs

C3_Outcome ==
  RaceOver =>
    LET ok == { p \in Procs : ~ret[p].threw }
        ids == { ret[p].id : p \in ok }
        Number(p) == RowOf(entries, ret[p].id).entry_number
    IN /\ \A p \in ok : HasRow(entries, ret[p].id)
       /\ \/ /\ ok = Procs
             /\ \/ Number("c1") = Number("c2") + 1
                \/ Number("c2") = Number("c1") + 1
          \/ Cardinality(ok) = 1
       /\ \A r \in entries : r.id \notin ids => \A i \in ids : r.id < i
       /\ \A r1, r2 \in entries : r1 # r2 => r1.entry_number # r2.entry_number

C3_FailedCreateStoresNothing ==
  \A p \in Procs : Finishes(p) /\ ret'[p].threw => entries' = entries

C3_SimultaneousCreates == [](C3_Outcome) /\ [][C3_FailedCreateStoresNothing]_vars

\* The race ended with one create thrown out.
C3_Witness == RaceOver /\ \E p \in Procs : ret[p].threw

\* C4: the number createEntry assigns is 1 plus the largest entry_number of
\* the rows (soft-deleted ones included) its group held when the maximum was
\* read, and 1 when the group held none.
C4_Step ==
  \A p \in Procs :
    /\ pc[p] = "idle" /\ pc'[p] = "create_insert" =>
         IsMaxPlusOne(entries, local'[p].input.project, local'[p].input.document_type,
                      local'[p].input.entry_date, local'[p].entryNumber)
    /\ pc[p] = "create_insert" /\ pc'[p] = "done" /\ ~ret'[p].threw =>
         \E r \in entries' \ entries :
           /\ r.id = ret'[p].id
           /\ SameGroup(r, local[p].input.project, local[p].input.document_type,
                        local[p].input.entry_date)
           /\ r.entry_number = local[p].entryNumber
    /\ pc[p] = "idle" /\ pc'[p] = "done" /\ ret'[p].op = "createEntry" /\ ~ret'[p].threw =>
         \E r \in entries' \ entries :
           /\ r.id = ret'[p].id
           /\ SameGroup(r, ret'[p].args.project, ret'[p].args.document_type,
                        ret'[p].args.entry_date)
           /\ IsMaxPlusOne(entries, r.project, r.document_type, r.entry_date, r.entry_number)

C4_NumberIsMaxPlusOne == [][C4_Step]_vars

\* A create got number 2 behind a soft-deleted number 1.
C4_Witness ==
  \E p \in Procs :
    /\ pc[p] = "done" /\ ret[p].op = "createEntry" /\ ~ret[p].threw
    /\ \E r, r1 \in entries :
         /\ r.id = ret[p].id /\ r.entry_number = 2
         /\ Group(r1) = Group(r) /\ r1.entry_number = 1 /\ r1.is_deleted = 1

\* C5: within a group a number that one entry has carried is never given to
\* another entry.
C5_NeverReassigned ==
  \A h1, h2 \in held :
    Group(h1) = Group(h2) /\ h1.entry_number = h2.entry_number => h1.id = h2.id

\* C6: an update to another date gives the entry 1 plus the largest number of
\* the other rows of its project and document type on that date (as read by
\* the MAX query), 1 when there is none, and the stored number equals no other
\* row's number in the new group.
NoOtherHasNumber(rows, row) ==
  \A r \in rows : r.id # row.id /\ Group(r) = Group(row) => r.entry_number # row.entry_number

C6_Step ==
  \A p \in Procs :
    /\ pc[p] = "idle" /\ pc'[p] \in {"update_max", "update_write"} =>
         (pc'[p] = "update_max" <=>
            /\ local'[p].input.entry_date # Undefined
            /\ local'[p].input.entry_date # RowOf(entries, local'[p].id).entry_date)
    /\ pc[p] = "update_max" /\ pc'[p] = "update_write" =>
         /\ local'[p].newEntryDate = local[p].input.entry_date
         /\ IsMaxPlusOne({ r \in entries : r.id # local[p].id },
                         local[p].existing.project, local[p].existing.document_type,
                         local[p].input.entry_date, local'[p].newEntryNumber)
    /\ pc[p] = "update_write" /\ pc'[p] = "done" /\ ret'[p].ok =>
         LET row == RowOf(entries', ret'[p].id)
         IN /\ row.entry_date = local[p].newEntryDate
            /\ row.entry_number = local[p].newEntryNumber
            /\ NoOtherHasNumber(entries', row)
    /\ pc[p] = "idle" /\ pc'[p] = "done" /\ ret'[p].op = "updateEntry" /\ ret'[p].ok =>
         LET old == RowOf(entries, ret'[p].id)
             row == RowOf(entries', ret'[p].id)
         IN ret'[p].args.entry_date # Undefined /\ ret'[p].args.entry_date # old.entry_date =>
              /\ row.entry_date = ret'[p].args.entry_date
              /\ IsMaxPlusOne({ r \in entries : r.id # old.id }, old.project,
                              old.document_type, row.entry_date, row.entry_number)
              /\ NoOtherHasNumber(entries', row)

C6_DateChangeRenumbers == [][C6_Step]_vars

\* The first row ever created was moved behind another row of the new date.
C6_Witness ==
  \E p \in Procs :
    /\ pc[p] = "done" /\ ret[p].op = "updateEntry" /\ ret[p].ok /\ ret[p].id = 1
    /\ \E r, r1 \in entries :
         /\ r.id = 1 /\ r.entry_number = 2 /\ r.entry_date = ret[p].args.entry_date
         /\ r1.id # 1 /\ Group(r1) = Group(r) /\ r1.entry_number = 1

\* C7: a soft-deleted entry is in no listing made without includeDeleted,
\* getEntry still finds it, and a listing with includeDeleted holds it when it
\* matches the other filters.
MatchesOtherFilters(r, f) ==
  /\ f.project # Undefined => r.project = f.project
  /\ f.document_type # Undefined => r.document_type = f.document_type
  /\ f.after # Undefined => DateRank(r.entry_date) >= DateRank(f.after)
  /\ f.before # Undefined => DateRank(r.entry_date) <= DateRank(f.before)

ListedIds(p) == { ret[p].entries[i] : i \in 1..Len(ret[p].entries) }

C7_SoftDeletedHiddenNotGone ==
  \A p \in Procs :
    pc[p] = "done" /\ ~ret[p].threw =>
      /\ ret[p].op = "listEntries" /\ ~ret[p].args.includeDeleted =>
           \A r \in entries : r.is_deleted = 1 => r.id \notin ListedIds(p)
      /\ ret[p].op = "getEntry" =>
           \A r \in entries : r.is_deleted = 1 /\ r.id = ret[p].id =>
             ret[p].ok /\ ret[p].http = 200
      /\ ret[p].op = "listEntries" /\ ret[p].args.includeDeleted =>
           \A r \in entries : r.is_deleted = 1 /\ MatchesOtherFilters(r, ret[p].args) =>
             r.id \in ListedIds(p)

\* A listing with includeDeleted and a project filter holds a soft-deleted row.
C7_Witness ==
  \E p \in Procs :
    /\ pc[p] = "done" /\ ret[p].op = "listEntries" /\ ~ret[p].threw
    /\ ret[p].args.includeDeleted /\ ret[p].args.project = "my-project"
    /\ \E r \in entries : r.is_deleted = 1 /\ r.id \in ListedIds(p)

\* C8: a soft delete sets is_deleted on its target and changes nothing else:
\* the target keeps id, project, document_type, entry_date, entry_number and
\* its text, and every other row stays as it was.
C8_Step ==
  \A p \in Procs :
    Finishes(p) /\ ret'[p].op = "deleteEntry" /\ ~ret'[p].threw /\ ~ret'[p].args.hard =>
      /\ { r.id : r \in entries' } = { r.id : r \in entries }
      /\ \A r \in entries :
           IF r.id = ret'[p].id
           THEN [r EXCEPT !.is_deleted = 1] \in entries'
           ELSE r \in entries'
      /\ ret'[p].ok <=> HasRow(entries, ret'[p].id)

C8_SoftDeleteFrame == [][C8_Step]_vars

\* A row was soft-deleted next to a live one.
C8_Witness ==
  \E p \in Procs :
    /\ pc[p] = "done" /\ ret[p].op = "deleteEntry" /\ ret[p].ok /\ ~ret[p].args.hard
    /\ \E r, r2 \in entries :
         r.id = ret[p].id /\ r.is_deleted = 1 /\ r2.is_deleted = 0 /\ Group(r) = Group(r2)

\* C9: updateEntry on an existing entry writes the fields its partial carries
\* and no other: an absent field keeps its value, id, project, document_type
\* and is_deleted stay, entry_number changes only with a different
\* entry_date, and the other rows are untouched.
C9_Step ==
  \A p \in Procs :
    Finishes(p) /\ ret'[p].op = "updateEntry" /\ ret'[p].ok =>
      LET old == RowOf(entries, ret'[p].id)
          row == RowOf(entries', ret'[p].id)
          partial == ret'[p].args
      IN /\ HasRow(entries, ret'[p].id) /\ HasRow(entries', ret'[p].id)
         /\ \A f \in TextFields \cup {"entry_date"} :
              row[f] = IF partial[f] = Undefined THEN old[f] ELSE partial[f]
         /\ row.id = old.id /\ row.project = old.project
         /\ row.document_type = old.document_type /\ row.is_deleted = old.is_deleted
         /\ row.entry_number # old.entry_number =>
              partial.entry_date # Undefined /\ partial.entry_date # old.entry_date
         /\ entries' \ {row} = entries \ {old}

C9_PartialUpdateFrame == [][C9_Step]_vars

\* An update of title and summary left status and the date alone.
C9_Witness ==
  \E p \in Procs :
    /\ pc[p] = "done" /\ ret[p].op = "updateEntry" /\ ret[p].ok
    /\ ret[p].args.title = "Renamed"
    /\ \E r \in entries :
         /\ r.id = ret[p].id /\ r.title = "Renamed" /\ r.summary = ""
         /\ r.status = "complete" /\ r.is_deleted = 1

\* C10: on a created table, updateEntry / deleteEntry of an id no row has
\* return null / false, do not throw, change no row, and the PUT / DELETE route
\* answers 404.
C10_Step ==
  \A p \in Procs :
    /\ Finishes(p) /\ tableExists
    /\ ret'[p].op \in {"updateEntry", "deleteEntry"}
    /\ ~HasRow(entries, ret'[p].id)
    => /\ ~ret'[p].threw
       /\ ~ret'[p].ok
       /\ entries' = entries
       /\ ret'[p].op = "updateEntry" => ret'[p].http = 404
       /\ ret'[p].op = "deleteEntry" /\ ~ret'[p].args.hard => ret'[p].http = 404

C10_NotFoundIsReported == [][C10_Step]_vars

\* An update found no row while the table holds other rows.
C10_Witness ==
  \E p \in Procs :
    /\ pc[p] = "done" /\ ret[p].op = "updateEntry" /\ ~ret[p].ok /\ ~ret[p].threw
    /\ ret[p].http = 404 /\ entries # {} /\ ~HasRow(entries, ret[p].id)

\* C11: the entries listEntries returns come by entry_date descending and,
\* within one date, by entry_number descending, and total is the number of rows
\* that match the filter, whatever limit and offset are.
ListAnswered(p) == pc[p] = "done" /\ ret[p].op = "listEntries" /\ ~ret[p].threw

MatchesFlag(r, f) == f.includeDeleted \/ r.is_deleted = 0

C11_OrderedAndCounted ==
  \A p \in Procs :
    ListAnswered(p) =>
      LET ids == ret[p].entries
          row(i) == RowOf(entries, ids[i])
      IN /\ \A i, j \in 1..Len(ids) :
              i < j =>
                \/ DateRank(row(i).entry_date) > DateRank(row(j).entry_date)
                \/ /\ row(i).entry_date = row(j).entry_date
                   /\ row(i).entry_number >= row(j).entry_number
         /\ ret[p].total =
              Cardinality({ r \in entries :
                              MatchesOtherFilters(r, ret[p].args) /\ MatchesFlag(r, ret[p].args) })

\* The second page of size one holds the older of two rows, and total is 2.
C11_Witness ==
  \E p \in Procs :
    /\ ListAnswered(p)
    /\ ret[p].args.limit = 1 /\ ret[p].args.offset = 1
    /\ ret[p].total = 2 /\ Len(ret[p].entries) = 1
    /\ \E r \in entries :
         /\ r.id # ret[p].entries[1]
         /\ DateRank(r.entry_date) > DateRank(RowOf(entries, ret[p].entries[1]).entry_date)

\* C12: whatever limit the caller passes (above 200, zero, negative),
\* listEntries returns at most 200 entries.
C12_AtMostCap ==
  \A p \in Procs : ListAnswered(p) => Len(ret[p].entries) <= LimitCap

\* C13 as stated: without a limit listEntries returns at most 20 entries.
C13_DefaultTwenty ==
  \A p \in Procs : ListAnswered(p) /\ ret[p].args.limit = 0 => Len(ret[p].entries) <= 20

\* C13 (amended): listEntries called without a limit uses a limit of 50: it
\* returns the first 50 rows after the offset, or all of them when fewer are
\* left; called without an offset it starts with the first row of the order.
C13_DefaultFifty ==
  \A p \in Procs :
    ListAnswered(p) /\ ret[p].args.limit = 0 =>
      /\ Len(ret[p].entries) = Min(50, IF ret[p].total > ret[p].args.offset
                                        THEN ret[p].total - ret[p].args.offset ELSE 0)
      /\ ret[p].args.offset = 0 /\ ret[p].entries # <<>> =>
           \A r \in entries :
             MatchesFlag(r, ret[p].args) =>
               r.entry_number <= RowOf(entries, ret[p].entries[1]).entry_number

\* A call without limit and offset returned 50 of more than 200 rows.
C13_Witness ==
  \E p \in Procs :
    /\ ListAnswered(p) /\ ret[p].args.limit = 0 /\ ret[p].args.offset = 0
    /\ Len(ret[p].entries) = 50 /\ ret[p].total > 200

\* C14: the record createEntry stored, which getEntry of the returned id
\* gives back, has the input's project, document_type, entry_date and title,
\* the provided value in every optional field the input carries, and null in
\* every optional field the input leaves out.
C14_RoundTrip ==
  \A p \in Procs :
    pc[p] = "done" /\ ret[p].op = "createEntry" /\ ~ret[p].threw =>
      LET input == ret[p].args
          got == RowOf(entries, ret[p].id)
      IN /\ HasRow(entries, ret[p].id)
         /\ got.project = input.project
         /\ got.document_type = input.document_type
         /\ got.entry_date = input.entry_date
         /\ got.title = input.title
         /\ \A f \in OptFields :
              got[f] = IF input[f] = Undefined THEN NULL ELSE input[f]

\* C15: called one after another with the same arguments, the two backends
\* give the same answers; here: the answer listEntries gave on this backend is
\* an answer the other backend gives from the same table.
C15_SameListAnswer ==
  \A p \in Procs :
    pc[p] = "done" /\ ret[p].op = "listEntries" /\ tableExists =>
      ret[p] \in IF usePostgres
                 THEN SqliteListAnswers(entries, ret[p].args)
                 ELSE PostgresListAnswers(entries, ret[p].args)

\* The whitespace-separated terms of q: the maximal runs of non-space characters.
Words(q) ==
  { SubSeq(q, run[1], run[2]) :
      run \in { x \in (1..Len(q)) \X (1..Len(q)) :
                  /\ x[1] <= x[2]
                  /\ \A k \in x[1]..x[2] : SubSeq(q, k, k) # " "
                  /\ x[1] = 1 \/ SubSeq(q, x[1] - 1, x[1] - 1) = " "
                  /\ x[2] = Len(q) \/ SubSeq(q, x[2] + 1, x[2] + 1) = " " } }

\* word is a substring of text, letter case aside.
Contains(text, word) ==
  \E i \in 1..Len(text) :
    /\ i + Len(word) - 1 <= Len(text)
    /\ ToLowerCase(SubSeq(text, i, i + Len(word) - 1)) = ToLowerCase(word)

\* C16: with q set, listEntries returns exactly the entries matching the other
\* filters in which every whitespace-separated term of q is a case-insensitive
\* substring of title, summary, details or next_steps.
C16_EveryTermIsSubstring ==
  \A p \in Procs :
    ListAnswered(p) /\ ret[p].args.q # Undefined =>
      ListedIds(p) =
        { r.id : r \in
            { x \in entries :
                /\ MatchesOtherFilters(x, [ret[p].args EXCEPT !.project =
                                             IF @ = "" THEN Undefined ELSE @])
                /\ MatchesFlag(x, ret[p].args)
                /\ \A w \in Words(ret[p].args.q) :
                     \E f \in SearchedFields : x[f] # NULL /\ Contains(x[f], w) } }

\* The condition the code builds for q: each term is LIKE-matched by one of
\* the four columns.
MatchesSearch(r, q) == \A w \in Words(q) : TermCondition(usePostgres, r, w)

\* C17 as stated: the rows matched are those satisfying the condition of
\* every filter field that is present (set to any value); absent fields add
\* no condition.
C17_PresentFieldsConjoined ==
  \A p \in Procs :
    ListAnswered(p) =>
      LET f == ret[p].args
          matched == { r \in entries :
                         /\ MatchesOtherFilters(r, f)
                         /\ f.q # Undefined => MatchesSearch(r, f.q)
                         /\ MatchesFlag(r, f) }
      IN ListedIds(p) = { r.id : r \in matched } /\ ret[p].total = Cardinality(matched)

\* C17 (amended): the rows matched are those satisfying the condition of every
\* filter field that is present and not the empty string: project equals,
\* document_type equals, entry_date >= after, entry_date <= before, the q
\* condition, and is_deleted = 0 unless includeDeleted is set; a field that is
\* absent or empty adds no condition.
Given(x) == x # Undefined /\ x # ""

C17_NonEmptyFieldsConjoined ==
  \A p \in Procs :
    ListAnswered(p) =>
      LET f == ret[p].args
          matched == { r \in entries :
                         /\ Given(f.project) => r.project = f.project
                         /\ Given(f.document_type) => r.document_type = f.document_type
                         /\ Given(f.after) => DateRank(r.entry_date) >= DateRank(f.after)
                         /\ Given(f.before) => DateRank(r.entry_date) <= DateRank(f.before)
                         /\ Given(f.q) => MatchesSearch(r, f.q)
                         /\ ~f.includeDeleted => r.is_deleted = 0 }
      IN ListedIds(p) = { r.id : r \in matched } /\ ret[p].total = Cardinality(matched)

\* An empty project, a date bound and a search term together select one of
\* two rows.
C17_Witness ==
  \E p \in Procs :
    /\ ListAnswered(p)
    /\ ret[p].args.project = "" /\ ret[p].args.after = "2025-06-30" /\ ret[p].args.q = "auth"
    /\ Len(ret[p].entries) = 1 /\ Cardinality(entries) = 2

\* The tokens a request supplies: the one of an `Authorization: Bearer <token>`
\* header and the one of the `token` query parameter.
SuppliedTokens(c) ==
  { t \in TokenParams \ {NULL} : c.authorization = "Bearer " \o t }
    \cup ({c.token} \ {NULL})

\* The answer the fail-closed rule gives a request, 0 when the rule lets it pass.
FailClosedStatus(c) ==
  IF c.apiKey \in {Undefined, ""} THEN 500
  ELSE IF SuppliedTokens(c) = {} THEN 401
  ELSE IF c.apiKey \notin SuppliedTokens(c) THEN 401
  ELSE 0

\* The requests the fail-closed rule turns away.
TurnedAway == { c \in Credentials : FailClosedStatus(c) # 0 }

\* C18: on every route that calls verifyAuth, a request is answered 500 when
\* API_KEY is not configured, 401 when it carries no token and 401 when its
\* token differs from API_KEY, and the step that answers it leaves the table,
\* the schema and the database handle as they were.
C18_FailsClosed ==
  [][\A c \in TurnedAway :
       Handle("c1", c)
         => /\ ret'["c1"] = Rejected(c, FailClosedStatus(c))
            /\ pc'["c1"] = "done"
            /\ UNCHANGED <<usePostgres, sqliteDb, tableExists, entries, nextId>>]_vars

\* A request with a wrong token was answered 401 while the table had entries.
C18_Witness ==
  /\ entries # {}
  /\ ret["c1"].op = "verifyAuth"
  /\ ret["c1"].http = 401
  /\ ret["c1"].args.token = "other"

\* C19: with API_KEY configured, a request that supplies the configured token
\* in the Authorization header or in the token query parameter is never
\* answered by verifyAuth's error response, whatever the other location holds.
C19_EitherLocationAuthenticates ==
  [][\A c \in Credentials :
       (~Falsy(c.apiKey) /\ c.apiKey \in SuppliedTokens(c) /\ Handle("c1", c))
         => ret'["c1"].op # "verifyAuth"]_vars

\* C20: every status in the table, all of them stored through the HTTP API, is
\* null or one of the six canonical keys.
C20_StoredStatusCanonical ==
  \A r \in entries : r.status = NULL \/ r.status \in CanonicalStatuses

\* A POST body the validation rules refuse.
RefusedPost(body) ==
  \/ \E f \in {"project", "document_type", "date", "title"} : body[f] = Undefined
  \/ body.document_type \notin {"addendum", "dev_log"}
  \/ ~DateFormatOk(body.date)

\* An id that is not a string of digits.
NonNumeric(id) == id = "" \/ \E i \in 1..Len(id) : ~IsDigit(SubSeq(id, i, i))

\* A PUT request the validation rules refuse.
RefusedPut(id, body) ==
  \/ NonNumeric(id)
  \/ body.title # Undefined /\ Trim(body.title) = ""
  \/ body.date # Undefined /\ ~DateFormatOk(body.date)

AnsweredBadRequest ==
  /\ pc'["c1"] = "done"
  /\ ret'["c1"].http = 400
  /\ UNCHANGED <<entries, nextId>>

\* C21: an authenticated POST or PUT that fails validation (POST: a required
\* field missing, document_type outside addendum and dev_log, date not of the
\* form YYYY-MM-DD; PUT: non-numeric id, title empty after trimming, date not
\* of the form YYYY-MM-DD) is answered 400 and leaves every row as it was.
C21_InvalidAnsweredBadRequest ==
  [][/\ \A body \in PostBodies :
          (RefusedPost(body) /\ Post("c1", body)) => AnsweredBadRequest
     /\ \A id \in PathIds, body \in PutBodies :
          (RefusedPut(id, body) /\ Put("c1", id, body)) => AnsweredBadRequest]_vars

\* C22: through the HTTP routes no row is ever removed: every id the table
\* holds before a step is still held after it, so the ids GET /entries/{id}
\* can address only grow.
C22_NoRowRemoved ==
  [][\A r \in entries : \E kept \in entries' : kept.id = r.id]_vars

\* DELETE /entries/{id} has answered success and the row is still in the
\* table, flagged as deleted.
C22_Witness ==
  /\ ret["c1"].op = "deleteEntry"
  /\ ret["c1"].ok
  /\ \E r \in entries : r.id = ret["c1"].id /\ r.is_deleted = 1

\* The row the insert of p's create is about to write duplicates the
\* (project, document_type, entry_date, entry_number) of a row in the table.
InsertCollides(p) ==
  /\ pc[p] = "create_insert"
  /\ \E r \in entries :
       /\ SameGroup(r, local[p].input.project, local[p].input.document_type,
                    local[p].input.entry_date)
       /\ r.entry_number = local[p].entryNumber

\* C23: when the insert of a POST hits the uniqueness constraint, or the
\* storage fails in another way, the request ends there with answer 500 (the
\* insert is not tried again) and the table is as it was before.
C23_FailedInsertAnswered500 ==
  [][\A p \in Procs :
       /\ (InsertCollides(p) /\ PostgresCreateEntryInsert(p))
            => pc'[p] = "done" /\ ret'[p].http = 500 /\ entries' = entries
       /\ (Finishes(p) /\ ret'[p].op = "createEntry" /\ ret'[p].threw)
            => ret'[p].http = 500 /\ entries' = entries]_vars

\* A POST lost the race for a number: it was answered 500 and the table
\* holds the other client's row only.
C23_Witness ==
  \E p \in Procs :
    /\ tableExists
    /\ pc[p] = "done"
    /\ ret[p].op = "createEntry"
    /\ ret[p].threw
    /\ ret[p].http = 500
    /\ Cardinality(entries) = 1

\* C26: the embedded handle is opened once: a handle that is set stays the
\* one it is, and whenever a handle is set the schema has been created.
C26_OpenedOnceWithSchema ==
  /\ [](~usePostgres /\ sqliteDb # NULL => tableExists)
  /\ [][sqliteDb # NULL => sqliteDb' = sqliteDb]_vars

\* C24: initSchema is idempotent: a call leaves the entries and the id
\* sequence as they were and the table in existence, and a call made when the
\* table exists changes nothing an operation reads, so that what later
\* operations return is what they return after one call.
C24_InitSchemaIdempotent ==
  [][\A p \in Procs :
       initSchema(p)
         => /\ entries' = entries
            /\ nextId' = nextId
            /\ tableExists'
            /\ tableExists => UNCHANGED <<usePostgres, sqliteDb, tableExists>>]_vars

\* initSchema has returned once more on a table that holds entries.
C24_Witness ==
  /\ ret["c1"].op = "initSchema"
  /\ pc["c1"] = "done"
  /\ entries # {}

\* The glyphs the statement names, removed as whole glyphs.
RECURSIVE StripGlyphs(_)
StripGlyphs(s) ==
  IF s = "" THEN ""
  ELSE IF Head(s) = "!" THEN StripGlyphs(Tail(s))
  ELSE IF Len(s) >= 2 /\ SubSeq(s, 1, 2) \in {"^{", "^}", "^[", "^]"}
       THEN StripGlyphs(SubSeq(s, 3, Len(s)))
       ELSE Head(s) \o StripGlyphs(Tail(s))

\* The result the statement describes.
Normalized(input) ==
  LET cleaned == Underscored(Trim(StripGlyphs(ToLowerCase(input))), FALSE)
  IN CASE cleaned = "done" -> "complete"
       [] cleaned = "partial" -> "in_progress"
       [] cleaned = "urgent" -> "blocked"
       [] cleaned = "inprogress" -> "in_progress"
       [] OTHER -> cleaned

\* C25: normalizeStatus returns its input lower-cased, without the five emoji
\* glyphs, trimmed, with each run of whitespace turned into one underscore and
\* with done, partial, urgent and inprogress mapped to their canonical keys;
\* every other cleaned value is returned as it is.
C25_NormalizeStatus ==
  \A p \in Procs :
    ret[p].op = "normalizeStatus" => ret[p].result = Normalized(ret[p].args)

\* Both clients' updates of one row have returned the updated entry, and they
\* set different fields.
UpdatesOver ==
  /\ \A p \in Procs : pc[p] = "done" /\ ret[p].op = "updateEntry" /\ ret[p].ok
  /\ ret["c1"].id = ret["c2"].id
  /\ ret["c1"].args # ret["c2"].args

\* C27: after two concurrent updateEntry calls on one id that set different
\* fields, the row carries the value each call set.
C27_BothUpdatesTakeEffect ==
  UpdatesOver =>
    \A p \in Procs :
      \A f \in {"entry_date"} \cup TextFields :
        ret[p].args[f] # Undefined => RowOf(entries, ret[p].id)[f] = ret[p].args[f]

\* C28: on the embedded backend no create of the race fails, and when both
\* have returned, their rows carry different numbers that follow one another.
C28_EmbeddedCreatesAllSucceed ==
  ~usePostgres =>
    /\ \A p \in Procs : ret[p].op = "createEntry" => ~ret[p].threw /\ ret[p].ok
    /\ RaceOver =>
         LET n1 == RowOf(entries, ret["c1"].id).entry_number
             n2 == RowOf(entries, ret["c2"].id).entry_number
         IN /\ ret["c1"].id # ret["c2"].id
            /\ n1 = n2 + 1 \/ n2 = n1 + 1

\* Both creates of the race have returned on the embedded backend.
C28_Witness ==
  /\ ~usePostgres
  /\ RaceOver
  /\ Cardinality(entries) = 2

\* The entries of pages from..to of the listing with `limit` entries a page,
\* one request a page, `ids` being the whole listing in list order.
RECURSIVE PagesRead(_, _, _, _)
PagesRead(ids, limit, from, to) ==
  IF from > to
  THEN <<>>
  ELSE Page(ids, Limit(PageFilters(limit, from)), Offset(PageFilters(limit, from)))
         \o PagesRead(ids, limit, from + 1, to)

\* C29: with the store unchanged, the pages 1..totalPages of GET /entries for
\* one limit, read one after another, are the matching entries in list order,
\* each exactly once.
C29_PagesCoverListing ==
  \A limit \in PageLimits :
    \A ids \in Orderings(usePostgres, entries, PageFilters(limit, 1)) :
      PagesRead(ids, limit, 1,
                TotalPages(SelectCount(usePostgres, entries, PageFilters(limit, 1)), limit))
        = ids

\* An updateEntry call returns for a row that was soft-deleted when it ran.
UpdatesDeletedRow(p) ==
  /\ Finishes(p)
  /\ ret'[p].op = "updateEntry"
  /\ ~ret'[p].threw
  /\ \E r \in entries : r.id = ret'[p].id /\ r.is_deleted = 1

\* C30: a row whose is_deleted flag is set keeps it set as long as it is in
\* the table, whatever createEntry, updateEntry, deleteEntry or initSchema
\* call comes next; an updateEntry on such a row returns the entry with the
\* fields of its input written.
C30_SoftDeleteIrreversible ==
  [][/\ \A r \in entries, kept \in entries' :
          r.is_deleted = 1 /\ kept.id = r.id => kept.is_deleted = 1
     /\ \A p \in Procs :
          UpdatesDeletedRow(p)
            => /\ ret'[p].ok
               /\ \A f \in {"entry_date"} \cup TextFields :
                    ret'[p].args[f] # Undefined
                      => RowOf(entries', ret'[p].id)[f] = ret'[p].args[f]]_vars

\* A soft-deleted entry was renamed by updateEntry and is still flagged.
C30_Witness ==
  /\ ret["c1"].op = "updateEntry"
  /\ ret["c1"].ok
  /\ ret["c1"].args.title = "Renamed"
  /\ \E r \in entries : r.id = ret["c1"].id /\ r.is_deleted = 1 /\ r.title = "Renamed"

====
